---- MODULE Spec2Model ----
(***************************************************************************)
(* Spin-wheel game: the Express/PostgreSQL backend (backend/src/index.js,  *)
(* migrations/001_schema.sql) and the direct-draw game service             *)
(* (gameService.js, socket handlers).                                      *)
(*                                                                         *)
(* One action is one database round trip of a handler together with the    *)
(* synchronous JavaScript that follows it up to the next await.  Row locks *)
(* (SELECT ... FOR UPDATE, UPDATE) are held until COMMIT / ROLLBACK; the   *)
(* writes of a transaction become visible at its COMMIT (READ COMMITTED).  *)
(***************************************************************************)
EXTENDS Integers, Sequences, FiniteSets, Bags, TLC

\* ---------------------------------------------------------------- bounds
MaxWheels == 1          \* wheels ever created
MaxParticipants == 3    \* rows of spin_participants ever inserted
MaxStarts == 1          \* manual start requests in flight at once
MaxDrawWheels == 1      \* wheels the game service ever creates
MaxJoins == 2           \* rows of the game service's join table
MaxDraws == 2           \* startWheel calls in flight at once
MaxCreates == 2         \* wheels and create requests in the specification of creation

\* ------------------------------------------------- schema and seed data
\* migrations/001_schema.sql: INSERT INTO users ... (ids are SERIAL: 1, 2, 3, ...);
\* the seed has admin, alice and bob ("developer can add more"): carol is one more
\* player, so that a wheel can reach min_participants with distinct users; her
\* coins cover one entry fee and not two
SeedUsers ==
  << [username |-> "admin", coins |-> 0,     is_admin |-> TRUE],
     [username |-> "alice", coins |-> 10000, is_admin |-> FALSE],
     [username |-> "bob",   coins |-> 10000, is_admin |-> FALSE],
     [username |-> "carol", coins |-> 150,   is_admin |-> FALSE] >>

Users == DOMAIN SeedUsers

\* a user id that names no row of users
NoSuchUser == Len(SeedUsers) + 1

\* migrations/001_schema.sql: seed of the config table
SeedConfig ==
  [fee_split_winner_pct |-> 70, fee_split_admin_pct |-> 20, fee_split_app_pct |-> 10]

\* a config an operator has edited; a value of 0 exercises the || default
EditedConfig ==
  [fee_split_winner_pct |-> 0, fee_split_admin_pct |-> 33, fee_split_app_pct |-> 67]

Configs == {SeedConfig, EditedConfig}

DefaultEntryFee == 100        \* entry_fee||100, entry_fee BIGINT DEFAULT 100
DefaultMinParticipants == 3   \* min_participants INTEGER DEFAULT 3
DefaultWinnerPct == 70
DefaultAdminPct == 20
DefaultAppPct == 10

\* entry_fee values of a create request; 0 stands for an absent (falsy) value
EntryFeeInputs == {0, 101}

VARIABLES
  coins,              \* users.coins, by user id
  config,             \* the config table (fee_split_* keys)
  spin_wheels,        \* sequence of rows, index = id
  spin_participants,  \* sequence of rows, index = id
  transactions,       \* bag of rows of the transactions table
  wheelLock,          \* per wheel: the transaction holding the row lock
  userLock,           \* per user: the transaction holding the row lock
  creating,           \* create requests past their checks, before the INSERT
  joinTx,             \* per wheel: the join transaction holding its row lock
  startReq,           \* manual start requests in flight
  autoStart,          \* per wheel: position of the deadline callback
  refund,             \* per wheel: position of refundWheel's transaction
  starting,           \* per wheel: startElimination calls awaiting their query
  loops,              \* elimination loops (closures of startElimination)
  emitted,            \* events passed to io.emit
  restartedActive,    \* history: the wheels that were active when the process restarted
  \* the direct-draw game service (gameService.js and its socket handlers)
  wheel,              \* prisma wheel table, index = id
  joins,              \* prisma join table, index = id
  balance,            \* prisma user.balance, by user id
  wheelSeeds,         \* global.__wheelSeeds, by wheel id (0: no entry)
  redisLock,          \* by wheel id: whether the key lock:wheel:<id> is set
  draws,              \* startWheel calls in flight
  published           \* what the game service sent to clients: emitted events, and the
                      \* acks that carry a wheel row

dbVars == <<coins, config, spin_wheels, spin_participants, transactions>>
lockVars == <<wheelLock, userLock>>
procVars == <<creating, joinTx, startReq, autoStart, refund, starting, loops>>
backendVars == <<dbVars, lockVars, procVars, emitted, restartedActive>>
drawVars == <<wheel, joins, balance, wheelSeeds, redisLock, draws, published>>
restVars == <<restartedActive, drawVars>>
vars == <<backendVars, restVars>>

\* ------------------------------------------------------------- helpers
NoTx == [kind |-> "none", id |-> 0]
JoinTxId(w) == [kind |-> "join", id |-> w]
RefundTxId(w) == [kind |-> "refund", id |-> w]
FinalizeTxId(l) == [kind |-> "finalize", id |-> l]

Wheels == DOMAIN spin_wheels
Parts == DOMAIN spin_participants

IsAdmin(u) == u \in Users /\ SeedUsers[u].is_admin

\* owner_id of a create or start request: the admin, and one user who is not
OwnerInputs == {CHOOSE u \in Users : IsAdmin(u), CHOOSE u \in Users : ~IsAdmin(u)}

\* ids of the rows of spin_participants of wheel w, in id order
RECURSIVE RowsFrom(_, _)
RowsFrom(w, i) ==
  IF i > Len(spin_participants) THEN <<>>
  ELSE IF spin_participants[i].wheel_id = w
       THEN <<i>> \o RowsFrom(w, i + 1)
       ELSE RowsFrom(w, i + 1)

WheelRows(w) == RowsFrom(w, 1)

\* SELECT COUNT(*) FROM spin_participants WHERE wheel_id=$1
CountParticipants(w) == Len(WheelRows(w))

\* ... WHERE wheel_id=$1 AND eliminated_at IS NULL
ActiveRows(w) == SelectSeq(WheelRows(w), LAMBDA p : ~spin_participants[p].eliminated)

\* x || d of JavaScript, on numbers
OrDefault(x, d) == IF x = 0 THEN d ELSE x

getConfigSplit ==
  [winner_pct |-> OrDefault(config.fee_split_winner_pct, DefaultWinnerPct),
   admin_pct  |-> OrDefault(config.fee_split_admin_pct, DefaultAdminPct),
   app_pct    |-> OrDefault(config.fee_split_app_pct, DefaultAppPct)]

\* Math.floor(x / 100) for an integer x (floor, also below zero)
FloorDiv100(x) == x \div 100

WinnerAmt(fee) == FloorDiv100(fee * getConfigSplit.winner_pct)
AdminAmt(fee) == FloorDiv100(fee * getConfigSplit.admin_pct)
\* a split that computes the app share from its percentage, as the other two
AppAmtByPct(fee) == FloorDiv100(fee * getConfigSplit.app_pct)
\* const appAmt = fee - winnerAmt - adminAmt
AppAmt(fee) == fee - WinnerAmt(fee) - AdminAmt(fee)

\* INSERT INTO transactions (user_id, amount, type, meta)
TxRow(u, amt, type, meta) == [user_id |-> u, amount |-> amt, type |-> type, meta |-> meta]
Record(tx) == transactions (+) SetToBag({tx})

Emit(ev, w) == emitted' = emitted \cup {[event |-> ev, wheelId |-> w]}

IdleDraw == [pc |-> "idle", wheelId |-> 0, nonce |-> 0, serverSeed |-> 0, winnerJoin |-> 0,
             payout |-> 0, winningIndex |-> 0]

\* ----------------------------------------------------------------- Init
Init ==
  /\ coins = [u \in Users |-> SeedUsers[u].coins]
  /\ config \in Configs
  /\ spin_wheels = <<>>
  /\ spin_participants = <<>>
  /\ transactions = EmptyBag
  /\ wheelLock = <<>>
  /\ userLock = [u \in Users |-> NoTx]
  /\ creating = <<>>
  /\ joinTx = <<>>
  /\ startReq = [s \in 1..MaxStarts |-> [pc |-> "idle", wheelId |-> 0]]
  /\ autoStart = <<>>
  /\ refund = <<>>
  /\ starting = <<>>
  /\ loops = <<>>
  /\ emitted = {}
  /\ restartedActive = {}
  /\ wheel = <<>>
  /\ joins = <<>>
  /\ balance = [u \in Users |-> SeedUsers[u].coins]
  /\ wheelSeeds = <<>>
  /\ redisLock = <<>>
  /\ draws = [c \in 1..MaxDraws |-> IdleDraw]
  /\ published = {}

\* ------------------------------------------- POST /api/wheels (create)
LiveWheels == {w \in Wheels : spin_wheels[w].status \in {"pending", "active"}}

CreateForbidden(owner_id) ==
  /\ ~IsAdmin(owner_id)
  /\ UNCHANGED vars

CreateConflict(owner_id) ==
  /\ IsAdmin(owner_id)
  /\ LiveWheels # {}
  /\ UNCHANGED vars

\* both checks passed, the INSERT is not sent yet; n caps the wheels and the
\* create requests in flight
CreateCheckedUpTo(n, owner_id, entry_fee) ==
  /\ Len(spin_wheels) + Len(creating) < n
  /\ IsAdmin(owner_id)
  /\ LiveWheels = {}
  /\ creating' = Append(creating, [owner_id |-> owner_id, entry_fee |-> entry_fee])
  /\ UNCHANGED <<dbVars, lockVars, joinTx, startReq, autoStart, refund, starting, loops, emitted, restVars>>

CreateChecked(owner_id, entry_fee) == CreateCheckedUpTo(MaxWheels, owner_id, entry_fee)

NewWheel(owner_id, entry_fee) ==
  [status |-> "pending", owner_id |-> owner_id,
   entry_fee |-> OrDefault(entry_fee, DefaultEntryFee),
   winner_pool |-> 0, admin_pool |-> 0, app_pool |-> 0,
   min_participants |-> DefaultMinParticipants]

IdleRefund == [pc |-> "idle", parts |-> <<>>, i |-> 0]
NoJoin == [pc |-> "none", user_id |-> 0]

CreateInsert ==
  /\ creating # <<>>
  /\ LET req == Head(creating)
         w == Len(spin_wheels) + 1
     IN /\ spin_wheels' = Append(spin_wheels, NewWheel(req.owner_id, req.entry_fee))
        /\ Emit("wheelCreated", w)
  /\ creating' = Tail(creating)
  /\ wheelLock' = Append(wheelLock, NoTx)
  /\ joinTx' = Append(joinTx, NoJoin)
  /\ autoStart' = Append(autoStart, "timer")
  /\ refund' = Append(refund, IdleRefund)
  /\ starting' = Append(starting, 0)
  /\ UNCHANGED <<coins, config, spin_participants, transactions, userLock, startReq, loops, restVars>>

\* ----------------------------------------- POST /api/wheels/:id/join
JoinWheelNotFound(wheelId) ==
  /\ wheelId \notin Wheels
  /\ UNCHANGED vars

JoinNotJoinable(wheelId) ==
  /\ wheelId \in Wheels
  /\ wheelLock[wheelId] = NoTx
  /\ spin_wheels[wheelId].status # "pending"
  /\ UNCHANGED vars

\* BEGIN; SELECT * FROM spin_wheels WHERE id=$1 FOR UPDATE
JoinLockWheel(wheelId, user_id) ==
  /\ Len(spin_participants) < MaxParticipants
  /\ wheelId \in Wheels
  /\ wheelLock[wheelId] = NoTx
  /\ spin_wheels[wheelId].status = "pending"
  /\ wheelLock' = [wheelLock EXCEPT ![wheelId] = JoinTxId(wheelId)]
  /\ joinTx' = [joinTx EXCEPT ![wheelId] = [pc |-> "lockUser", user_id |-> user_id]]
  /\ UNCHANGED <<dbVars, userLock, creating, startReq, autoStart, refund, starting, loops, emitted, restVars>>

\* a rollback that leaves the debit of the user in place
JoinRollbackKeepsDebit(w) ==
  /\ wheelLock' = [wheelLock EXCEPT ![w] = NoTx]
  /\ userLock' = [u \in Users |-> IF userLock[u] = JoinTxId(w) THEN NoTx ELSE userLock[u]]
  /\ joinTx' = [joinTx EXCEPT ![w] = NoJoin]
  /\ coins' = IF joinTx[w].user_id \in Users
              THEN [coins EXCEPT ![joinTx[w].user_id] = @ - spin_wheels[w].entry_fee]
              ELSE coins
  /\ UNCHANGED <<config, spin_wheels, spin_participants, transactions, creating, startReq,
                 autoStart, refund, starting, loops, emitted, restVars>>

\* ROLLBACK of the join transaction of wheel w
JoinRollback(w) ==
  /\ wheelLock' = [wheelLock EXCEPT ![w] = NoTx]
  /\ userLock' = [u \in Users |-> IF userLock[u] = JoinTxId(w) THEN NoTx ELSE userLock[u]]
  /\ joinTx' = [joinTx EXCEPT ![w] = NoJoin]
  /\ UNCHANGED <<dbVars, creating, startReq, autoStart, refund, starting, loops, emitted, restVars>>

JoinUserNotFound(w) ==
  /\ w \in Wheels
  /\ joinTx[w].pc = "lockUser"
  /\ joinTx[w].user_id \notin Users
  /\ JoinRollback(w)

JoinInsufficient(w) ==
  /\ w \in Wheels
  /\ joinTx[w].pc = "lockUser"
  /\ joinTx[w].user_id \in Users
  /\ userLock[joinTx[w].user_id] = NoTx
  /\ coins[joinTx[w].user_id] < spin_wheels[w].entry_fee
  /\ JoinRollback(w)

\* a join that does not compare the coins with the entry fee
JoinLockUserUnchecked(w) ==
  /\ w \in Wheels
  /\ joinTx[w].pc = "lockUser"
  /\ joinTx[w].user_id \in Users
  /\ userLock[joinTx[w].user_id] = NoTx
  /\ userLock' = [userLock EXCEPT ![joinTx[w].user_id] = JoinTxId(w)]
  /\ joinTx' = [joinTx EXCEPT ![w].pc = "write"]
  /\ UNCHANGED <<dbVars, wheelLock, creating, startReq, autoStart, refund, starting, loops, emitted, restVars>>

\* SELECT * FROM users WHERE id=$1 FOR UPDATE, with enough coins
JoinLockUser(w) ==
  /\ w \in Wheels
  /\ joinTx[w].pc = "lockUser"
  /\ joinTx[w].user_id \in Users
  /\ userLock[joinTx[w].user_id] = NoTx
  /\ coins[joinTx[w].user_id] >= spin_wheels[w].entry_fee
  /\ userLock' = [userLock EXCEPT ![joinTx[w].user_id] = JoinTxId(w)]
  /\ joinTx' = [joinTx EXCEPT ![w].pc = "write"]
  /\ UNCHANGED <<dbVars, wheelLock, creating, startReq, autoStart, refund, starting, loops, emitted, restVars>>

NewParticipant(w, u) ==
  [wheel_id |-> w, user_id |-> u, eliminated |-> FALSE, eliminated_order |-> 0]

\* the wheel row after UPDATE spin_wheels SET winner_pool = winner_pool + $1, ...
AddPools(row) ==
  [row EXCEPT !.winner_pool = @ + WinnerAmt(row.entry_fee),
              !.admin_pool = @ + AdminAmt(row.entry_fee),
              !.app_pool = @ + AppAmt(row.entry_fee)]

\* UPDATE users, INSERT transactions, UPDATE spin_wheels, INSERT spin_participants, COMMIT
JoinCommit(w) ==
  /\ w \in Wheels
  /\ joinTx[w].pc = "write"
  /\ LET u == joinTx[w].user_id
         fee == spin_wheels[w].entry_fee
     IN /\ coins' = [coins EXCEPT ![u] = @ - fee]
        /\ transactions' = Record(TxRow(u, -fee, "debit", [wheel |-> w]))
        /\ spin_wheels' = [spin_wheels EXCEPT ![w] = AddPools(@)]
        /\ spin_participants' = Append(spin_participants, NewParticipant(w, u))
        /\ userLock' = [userLock EXCEPT ![u] = NoTx]
  /\ wheelLock' = [wheelLock EXCEPT ![w] = NoTx]
  /\ joinTx' = [joinTx EXCEPT ![w] = NoJoin]
  /\ Emit("participantJoined", w)
  /\ UNCHANGED <<config, creating, startReq, autoStart, refund, starting, loops, restVars>>

\* a statement of the transaction fails: catch, ROLLBACK
JoinFail(w) ==
  /\ w \in Wheels
  /\ joinTx[w].pc = "write"
  /\ JoinRollback(w)

\* ---------------------------------------- POST /api/wheels/:id/start
StartForbidden(owner_id) ==
  /\ ~IsAdmin(owner_id)
  /\ UNCHANGED vars

StartWheelNotFound(owner_id, wheelId) ==
  /\ IsAdmin(owner_id)
  /\ wheelId \notin Wheels
  /\ UNCHANGED vars

StartNotStartable(owner_id, wheelId) ==
  /\ IsAdmin(owner_id)
  /\ wheelId \in Wheels
  /\ spin_wheels[wheelId].status # "pending"
  /\ UNCHANGED vars

\* SELECT * FROM spin_wheels WHERE id=$1 finds the wheel pending
StartRead(s, owner_id, wheelId) ==
  /\ startReq[s].pc = "idle"
  /\ IsAdmin(owner_id)
  /\ wheelId \in Wheels
  /\ spin_wheels[wheelId].status = "pending"
  /\ startReq' = [startReq EXCEPT ![s] = [pc |-> "count", wheelId |-> wheelId]]
  /\ UNCHANGED <<dbVars, lockVars, creating, joinTx, autoStart, refund, starting, loops, emitted, restVars>>

\* SELECT COUNT(*) ...: count < wheel.min_participants, 400
StartTooFew(s) ==
  /\ startReq[s].pc = "count"
  /\ CountParticipants(startReq[s].wheelId) < spin_wheels[startReq[s].wheelId].min_participants
  /\ startReq' = [startReq EXCEPT ![s] = [pc |-> "idle", wheelId |-> 0]]
  /\ UNCHANGED <<dbVars, lockVars, creating, joinTx, autoStart, refund, starting, loops, emitted, restVars>>

StartCounted(s) ==
  /\ startReq[s].pc = "count"
  /\ CountParticipants(startReq[s].wheelId) >= spin_wheels[startReq[s].wheelId].min_participants
  /\ startReq' = [startReq EXCEPT ![s].pc = "update"]
  /\ UNCHANGED <<dbVars, lockVars, creating, joinTx, autoStart, refund, starting, loops, emitted, restVars>>

\* UPDATE spin_wheels SET status='active' WHERE id=$1; emit; startElimination(wheelId)
MarkActive(w) ==
  /\ wheelLock[w] = NoTx
  /\ spin_wheels' = [spin_wheels EXCEPT ![w].status = "active"]
  /\ Emit("wheelStarted", w)
  /\ starting' = [starting EXCEPT ![w] = @ + 1]

StartUpdate(s) ==
  /\ startReq[s].pc = "update"
  /\ MarkActive(startReq[s].wheelId)
  /\ startReq' = [startReq EXCEPT ![s] = [pc |-> "idle", wheelId |-> 0]]
  /\ UNCHANGED <<coins, config, spin_participants, transactions, lockVars, creating, joinTx,
                 autoStart, refund, loops, restVars>>

\* ------------------------------------------------------ autoStartWheel
\* the deadline timer fires: SELECT * FROM spin_wheels WHERE id=$1
AutoStartRead(w) ==
  /\ w \in Wheels
  /\ autoStart[w] = "timer"
  /\ autoStart' = [autoStart EXCEPT ![w] =
                     IF spin_wheels[w].status # "pending" THEN "done" ELSE "count"]
  /\ UNCHANGED <<dbVars, lockVars, creating, joinTx, startReq, refund, starting, loops, emitted, restVars>>

\* count < wheel.min_participants: refundWheel(wheelId, 'not_enough_participants')
AutoStartTooFew(w) ==
  /\ w \in Wheels
  /\ autoStart[w] = "count"
  /\ CountParticipants(w) < spin_wheels[w].min_participants
  /\ autoStart' = [autoStart EXCEPT ![w] = "refund"]
  /\ refund' = [refund EXCEPT ![w] = [pc |-> "select", parts |-> <<>>, i |-> 0]]
  /\ UNCHANGED <<dbVars, lockVars, creating, joinTx, startReq, starting, loops, emitted, restVars>>

AutoStartCounted(w) ==
  /\ w \in Wheels
  /\ autoStart[w] = "count"
  /\ CountParticipants(w) >= spin_wheels[w].min_participants
  /\ autoStart' = [autoStart EXCEPT ![w] = "update"]
  /\ UNCHANGED <<dbVars, lockVars, creating, joinTx, startReq, refund, starting, loops, emitted, restVars>>

AutoStartUpdate(w) ==
  /\ w \in Wheels
  /\ autoStart[w] = "update"
  /\ MarkActive(w)
  /\ autoStart' = [autoStart EXCEPT ![w] = "done"]
  /\ UNCHANGED <<coins, config, spin_participants, transactions, lockVars, creating, joinTx,
                 startReq, refund, loops, restVars>>

\* --------------------------------------------------------- refundWheel
AbortReason == "not_enough_participants"

\* BEGIN; SELECT user_id FROM spin_participants WHERE wheel_id=$1 FOR UPDATE
RefundSelect(w) ==
  /\ w \in Wheels
  /\ refund[w].pc = "select"
  /\ refund' = [refund EXCEPT ![w] = [pc |-> "credit", parts |-> WheelRows(w), i |-> 1]]
  /\ UNCHANGED <<dbVars, lockVars, creating, joinTx, startReq, autoStart, starting, loops, emitted, restVars>>

\* one pass of the for loop: UPDATE users SET coins = coins + $1 takes the user's row lock
RefundCredit(w) ==
  /\ w \in Wheels
  /\ refund[w].pc = "credit"
  /\ refund[w].i <= Len(refund[w].parts)
  /\ LET u == spin_participants[refund[w].parts[refund[w].i]].user_id
     IN /\ userLock[u] \in {NoTx, RefundTxId(w)}
        /\ userLock' = [userLock EXCEPT ![u] = RefundTxId(w)]
  /\ refund' = [refund EXCEPT ![w].i = @ + 1]
  /\ UNCHANGED <<dbVars, wheelLock, creating, joinTx, startReq, autoStart, starting, loops, emitted, restVars>>

\* number of rows among ps that belong to user u
RowsOf(ps, u) == Cardinality({k \in DOMAIN ps : spin_participants[ps[k]].user_id = u})

RefundRow(w, u, fee) == TxRow(u, fee, "credit", [wheel |-> w, reason |-> AbortReason])

RECURSIVE RefundRows(_, _, _)
RefundRows(w, ps, fee) ==
  IF ps = <<>> THEN EmptyBag
  ELSE SetToBag({RefundRow(w, spin_participants[Head(ps)].user_id, fee)})
       (+) RefundRows(w, Tail(ps), fee)

\* a refund that keeps the app share of the fee
RefundCoinsLessAppShare(w, ps, fee) ==
  [u \in Users |-> coins[u] + (fee - AppAmt(fee)) * RowsOf(ps, u)]

\* the credits of the for loop, as they stand at COMMIT
RefundCoins(w, ps, fee) == [u \in Users |-> coins[u] + fee * RowsOf(ps, u)]

ReleaseUsers(tx) == [u \in Users |-> IF userLock[u] = tx THEN NoTx ELSE userLock[u]]

\* UPDATE spin_wheels SET status='aborted'; COMMIT; back in autoStartWheel: emit wheelAborted
RefundCommit(w) ==
  /\ w \in Wheels
  /\ refund[w].pc = "credit"
  /\ refund[w].i > Len(refund[w].parts)
  /\ wheelLock[w] = NoTx
  /\ coins' = RefundCoins(w, refund[w].parts, spin_wheels[w].entry_fee)
  /\ transactions' = transactions (+) RefundRows(w, refund[w].parts, spin_wheels[w].entry_fee)
  /\ spin_wheels' = [spin_wheels EXCEPT ![w].status = "aborted"]
  /\ userLock' = ReleaseUsers(RefundTxId(w))
  /\ refund' = [refund EXCEPT ![w] = IdleRefund]
  /\ autoStart' = [autoStart EXCEPT ![w] = "done"]
  /\ Emit("wheelAborted", w)
  /\ UNCHANGED <<config, spin_participants, wheelLock, creating, joinTx, startReq, starting, loops, restVars>>

\* a statement fails: ROLLBACK, console.error; autoStartWheel still emits wheelAborted
RefundFail(w) ==
  /\ w \in Wheels
  /\ refund[w].pc \in {"select", "credit"}
  /\ userLock' = ReleaseUsers(RefundTxId(w))
  /\ refund' = [refund EXCEPT ![w] = IdleRefund]
  /\ autoStart' = [autoStart EXCEPT ![w] = "done"]
  /\ Emit("wheelAborted", w)
  /\ UNCHANGED <<dbVars, wheelLock, creating, joinTx, startReq, starting, loops, restVars>>

\* ---------------------------------------------------- startElimination
\* participants.sort(() => Math.random() - 0.5) leaves the rows in any order, and
\* eliminateOne reads that array front to back (idx).  The loop keeps the rows it has
\* not read yet, participants[idx..], as the set unread; which of them stands next
\* in the shuffled array is drawn when it is read.
SeqToSet(rows) == {rows[k] : k \in DOMAIN rows}

NewLoop(w, participants) ==
  [wheelId |-> w, unread |-> SeqToSet(participants), pc |-> "timer",
   first |-> 0, eliminated |-> 0, winnerUserId |-> 0]

\* the query of line 199 returns; no rows: return; else shuffle and setTimeout(eliminateOne)
startElimination(w) ==
  /\ w \in Wheels
  /\ starting[w] > 0
  /\ starting' = [starting EXCEPT ![w] = @ - 1]
  /\ loops' = IF ActiveRows(w) = <<>> THEN loops
              ELSE Append(loops, NewLoop(w, ActiveRows(w)))
  /\ UNCHANGED <<dbVars, lockVars, creating, joinTx, startReq, autoStart, refund, emitted, restVars>>

\* --------------------------------------------------------- eliminateOne
LoopDone(l) == [loops[l] EXCEPT !.pc = "done", !.first = 0, !.eliminated = 0, !.unread = {}]

\* the timer fires: SELECT id, user_id ... AND eliminated_at IS NULL
EliminateQuery(l) ==
  /\ l \in DOMAIN loops
  /\ loops[l].pc = "timer"
  /\ LET active == ActiveRows(loops[l].wheelId)
     IN loops' = [loops EXCEPT ![l] =
          IF Len(active) > 1 THEN [@ EXCEPT !.pc = "pick", !.first = active[1]]
          ELSE IF Len(active) = 1
               THEN [LoopDone(l) EXCEPT !.pc = "finLock",
                        !.winnerUserId = spin_participants[active[1]].user_id]
               ELSE [LoopDone(l) EXCEPT !.pc = "noWinner"]]
  /\ UNCHANGED <<dbVars, lockVars, creating, joinTx, startReq, autoStart, refund, starting, emitted, restVars>>

\* the unread rows of the shuffled array that are still not eliminated
StillActive(l) == {p \in loops[l].unread : ~spin_participants[p].eliminated}

\* while(idx < participants.length): the candidates read up to the first one whose
\* check finds it still active; rows read and found eliminated are dropped
EliminatePick(l) ==
  /\ l \in DOMAIN loops
  /\ loops[l].pc = "pick"
  /\ IF StillActive(l) # {}
     THEN \E cand \in StillActive(l) :
            loops' = [loops EXCEPT ![l] =
              [@ EXCEPT !.pc = "mark", !.unread = StillActive(l) \ {cand},
                        !.eliminated = cand]]
     ELSE \* fallback: pick first active
          loops' = [loops EXCEPT ![l] =
              [@ EXCEPT !.pc = "mark", !.unread = {}, !.eliminated = loops[l].first]]
  /\ UNCHANGED <<dbVars, lockVars, creating, joinTx, startReq, autoStart, refund, starting, emitted, restVars>>

\* rows of spin_participants locked by a refund transaction in flight
PartLocked(p) == \E w \in Wheels : refund[w].pc = "credit" /\ \E k \in DOMAIN refund[w].parts : refund[w].parts[k] = p

\* eliminated_order = (SELECT COUNT(*) FROM spin_participants WHERE wheel_id=$1)
EliminatedOrder(w) == CountParticipants(w)

\* UPDATE spin_participants SET eliminated_at=now(), eliminated_order=...; emit; setTimeout
EliminateMark(l) ==
  /\ l \in DOMAIN loops
  /\ loops[l].pc = "mark"
  /\ ~PartLocked(loops[l].eliminated)
  /\ spin_participants' = [spin_participants EXCEPT ![loops[l].eliminated] =
        [@ EXCEPT !.eliminated = TRUE, !.eliminated_order = EliminatedOrder(loops[l].wheelId)]]
  /\ loops' = [loops EXCEPT ![l] = [@ EXCEPT !.pc = "timer", !.first = 0, !.eliminated = 0]]
  /\ Emit("userEliminated", loops[l].wheelId)
  /\ UNCHANGED <<coins, config, spin_wheels, transactions, lockVars, creating, joinTx, startReq,
                 autoStart, refund, starting, restVars>>

\* no participants left: UPDATE spin_wheels SET status='finished'
EliminateNoWinner(l) ==
  /\ l \in DOMAIN loops
  /\ loops[l].pc = "noWinner"
  /\ wheelLock[loops[l].wheelId] = NoTx
  /\ spin_wheels' = [spin_wheels EXCEPT ![loops[l].wheelId].status = "finished"]
  /\ loops' = [loops EXCEPT ![l] = LoopDone(l)]
  /\ UNCHANGED <<coins, config, spin_participants, transactions, lockVars, creating, joinTx,
                 startReq, autoStart, refund, starting, emitted, restVars>>

\* ------------------------------------------------------- finalizeWinner
\* BEGIN; SELECT winner_pool, admin_pool, owner_id FROM spin_wheels WHERE id=$1 FOR UPDATE
FinalizeLock(l) ==
  /\ l \in DOMAIN loops
  /\ loops[l].pc = "finLock"
  /\ wheelLock[loops[l].wheelId] = NoTx
  /\ wheelLock' = [wheelLock EXCEPT ![loops[l].wheelId] = FinalizeTxId(l)]
  /\ loops' = [loops EXCEPT ![l].pc = "finWinner"]
  /\ UNCHANGED <<dbVars, userLock, creating, joinTx, startReq, autoStart, refund, starting, emitted, restVars>>

\* UPDATE users ... WHERE id = u inside the transaction of loop l: takes u's row lock
FinalizeTakes(l, u) ==
  /\ userLock[u] \in {NoTx, FinalizeTxId(l)}
  /\ userLock' = [userLock EXCEPT ![u] = FinalizeTxId(l)]

\* if(Number(winner_pool) > 0): credit the winner
FinalizeCreditWinner(l) ==
  /\ l \in DOMAIN loops
  /\ loops[l].pc = "finWinner"
  /\ IF spin_wheels[loops[l].wheelId].winner_pool > 0
     THEN FinalizeTakes(l, loops[l].winnerUserId)
     ELSE UNCHANGED userLock
  /\ loops' = [loops EXCEPT ![l].pc = "finAdmin"]
  /\ UNCHANGED <<dbVars, wheelLock, creating, joinTx, startReq, autoStart, refund, starting, emitted, restVars>>

\* if(Number(admin_pool) > 0): credit the owner
FinalizeCreditAdmin(l) ==
  /\ l \in DOMAIN loops
  /\ loops[l].pc = "finAdmin"
  /\ IF spin_wheels[loops[l].wheelId].admin_pool > 0
     THEN FinalizeTakes(l, spin_wheels[loops[l].wheelId].owner_id)
     ELSE UNCHANGED userLock
  /\ loops' = [loops EXCEPT ![l].pc = "finCommit"]
  /\ UNCHANGED <<dbVars, wheelLock, creating, joinTx, startReq, autoStart, refund, starting, emitted, restVars>>

Credit(c, u, amt) == IF amt > 0 THEN [c EXCEPT ![u] = @ + amt] ELSE c

CreditRow(w, u, amt, role) ==
  IF amt > 0 THEN SetToBag({TxRow(u, amt, "credit", [wheel |-> w, role |-> role])})
  ELSE EmptyBag

\* the balances after finalizeWinner's two credits
FinalizeCoins(w, winnerUserId) ==
  Credit(Credit(coins, winnerUserId, spin_wheels[w].winner_pool),
         spin_wheels[w].owner_id, spin_wheels[w].admin_pool)

FinalizeRows(w, winnerUserId) ==
  CreditRow(w, winnerUserId, spin_wheels[w].winner_pool, "winner")
  (+) CreditRow(w, spin_wheels[w].owner_id, spin_wheels[w].admin_pool, "admin")

\* UPDATE spin_wheels SET status='finished'; COMMIT; emit wheelFinished
FinalizeCommit(l) ==
  /\ l \in DOMAIN loops
  /\ loops[l].pc = "finCommit"
  /\ LET w == loops[l].wheelId
     IN /\ coins' = FinalizeCoins(w, loops[l].winnerUserId)
        /\ transactions' = transactions (+) FinalizeRows(w, loops[l].winnerUserId)
        /\ spin_wheels' = [spin_wheels EXCEPT ![w].status = "finished"]
        /\ wheelLock' = [wheelLock EXCEPT ![w] = NoTx]
        /\ Emit("wheelFinished", w)
  /\ userLock' = ReleaseUsers(FinalizeTxId(l))
  /\ loops' = [loops EXCEPT ![l] = [LoopDone(l) EXCEPT !.winnerUserId = 0]]
  /\ UNCHANGED <<config, spin_participants, creating, joinTx, startReq, autoStart, refund, starting, restVars>>

\* a statement fails: ROLLBACK, console.error; eliminateOne returns, no timer is set
FinalizeFail(l) ==
  /\ l \in DOMAIN loops
  /\ loops[l].pc \in {"finWinner", "finAdmin", "finCommit"}
  /\ wheelLock' = [wheelLock EXCEPT ![loops[l].wheelId] = NoTx]
  /\ userLock' = ReleaseUsers(FinalizeTxId(l))
  /\ loops' = [loops EXCEPT ![l] = [LoopDone(l) EXCEPT !.winnerUserId = 0]]
  /\ UNCHANGED <<dbVars, creating, joinTx, startReq, autoStart, refund, starting, emitted, restVars>>

\* ------------------------------------------------ restart of the process
\* The Node process stops and starts again: timers, closures and handlers in
\* flight are gone, the connections close and PostgreSQL rolls their open
\* transactions back.  At start the module only wires the routes and calls
\* server.listen (line 290): nothing reads spin_wheels.
Restart ==
  /\ Wheels # {}
  /\ creating' = <<>>
  /\ joinTx' = [w \in Wheels |-> NoJoin]
  /\ startReq' = [s \in 1..MaxStarts |-> [pc |-> "idle", wheelId |-> 0]]
  /\ autoStart' = [w \in Wheels |-> "done"]
  /\ refund' = [w \in Wheels |-> IdleRefund]
  /\ starting' = [w \in Wheels |-> 0]
  /\ loops' = <<>>
  /\ wheelLock' = [w \in Wheels |-> NoTx]
  /\ userLock' = [u \in Users |-> NoTx]
  /\ restartedActive' = restartedActive \cup {w \in Wheels : spin_wheels[w].status = "active"}
  /\ UNCHANGED <<dbVars, emitted, drawVars>>

\* ======================================================================
\* The direct-draw game service: createWheel, deterministicSpinIndex, startWheel
\* and the socket handlers wheel:create, wheel:join, wheel:start
\* ======================================================================
\* crypto.randomBytes(32): the seeds a wheel can draw
SeedValues == {1, 2}

\* Date.now() at the moment of a draw
NonceValues == {1, 2, 3}

\* segments of a create request, as their weights; Lobby.jsx sends four of weight 1
SegmentInputs == {<<1, 1, 1, 1>>, <<2, 0, 1>>}

\* entryFee of a create request; Lobby.jsx sends 100
LobbyEntryFee == 100

\* crypto.createHash('sha256').update(seed).digest('hex'): one value per seed
Sha256(seed) == [sha256 |-> seed]

\* parseInt(HMAC-SHA256(serverSeed, String(nonce)).slice(0, 15), 16): a fixed
\* function of seed and nonce stands for the keyed digest
HmacNum(serverSeed, nonce) == (serverSeed * 7 + nonce * 5) % 16

\* seg.weight || 1
Weight(segments, i) == OrDefault(segments[i], 1)

RECURSIVE TotalWeight(_, _)
TotalWeight(segments, i) ==
  IF i > Len(segments) THEN 0 ELSE Weight(segments, i) + TotalWeight(segments, i + 1)

\* the for loop of deterministicSpinIndex from index i with accumulator acc;
\* indices are 1-based here, 0-based in the source
RECURSIVE Walk(_, _, _, _)
Walk(segments, pick, i, acc) ==
  IF i > Len(segments) THEN Len(segments)
  ELSE IF pick < acc + Weight(segments, i) THEN i
       ELSE Walk(segments, pick, i + 1, acc + Weight(segments, i))

deterministicSpinIndex(serverSeed, nonce, segments) ==
  Walk(segments, HmacNum(serverSeed, nonce) % TotalWeight(segments, 1), 1, 0)

DrawWheels == DOMAIN wheel

\* createWheel: prisma.wheel.create with serverSeedHash; the seed is returned
DrawCreateInsert(seed, segments) ==
  /\ Len(wheel) < MaxDrawWheels
  /\ wheel' = Append(wheel, [status |-> "waiting", entryFee |-> LobbyEntryFee,
                             segments |-> segments, serverSeedHash |-> Sha256(seed),
                             serverSeed |-> 0, pendingSeed |-> seed])
  /\ wheelSeeds' = Append(wheelSeeds, 0)
  /\ redisLock' = Append(redisLock, FALSE)
  /\ UNCHANGED <<backendVars, joins, balance, draws, published>>

\* the row with the handler's local serverSeed merged into it
StoredWheelWithSeed(w) ==
  [status |-> wheel[w].status, entryFee |-> wheel[w].entryFee, segments |-> wheel[w].segments,
   serverSeedHash |-> wheel[w].serverSeedHash, serverSeed |-> wheel[w].pendingSeed]

\* the row as clients and the store see it: pendingSeed is the handler's local
\* variable serverSeed, not a column
StoredWheel(w) ==
  [status |-> wheel[w].status, entryFee |-> wheel[w].entryFee, segments |-> wheel[w].segments,
   serverSeedHash |-> wheel[w].serverSeedHash, serverSeed |-> wheel[w].serverSeed]

\* socket 'wheel:create' after the await: global.__wheelSeeds[wheel.id] = serverSeed;
\* emit 'wheel:created' with the row; ack {success: true, wheel}
DrawCreateStore(w) ==
  /\ w \in DrawWheels
  /\ wheel[w].pendingSeed # 0
  /\ wheelSeeds' = [wheelSeeds EXCEPT ![w] = wheel[w].pendingSeed]
  /\ wheel' = [wheel EXCEPT ![w].pendingSeed = 0]
  /\ published' = published \cup {[event |-> "wheel:created", wheelId |-> w, wheel |-> StoredWheel(w)],
                                  [event |-> "ack wheel:create", wheelId |-> w, wheel |-> StoredWheel(w)]}
  /\ UNCHANGED <<backendVars, joins, balance, redisLock, draws>>

\* paymentMock.charge(userId, amount): success or failure
PaymentCharge(userId, amount) == {TRUE, FALSE}

\* socket 'wheel:join': findUnique, charge, prisma.join.create({userId, wheelId, paid: true})
DrawJoin(userId, w) ==
  /\ Len(joins) < MaxJoins
  /\ w \in DrawWheels
  /\ TRUE \in PaymentCharge(userId, wheel[w].entryFee)
  /\ joins' = Append(joins, [userId |-> userId, wheelId |-> w, paid |-> TRUE, payout |-> -1])
  /\ published' = published \cup {[event |-> "wheel:player_joined", wheelId |-> w, userId |-> userId]}
  /\ UNCHANGED <<backendVars, wheel, balance, wheelSeeds, redisLock, draws>>

\* socket 'wheel:join': wheel not found, or the charge fails: ack {success: false}
DrawJoinRejected(userId, w) ==
  /\ \/ w \notin DrawWheels
     \/ w \in DrawWheels /\ FALSE \in PaymentCharge(userId, wheel[w].entryFee)
  /\ UNCHANGED vars

\* redisClient.set(lockKey, '1', {NX: true, PX: 10000}) finds the key set
DrawLockBusy(w) ==
  /\ w \in DrawWheels
  /\ redisLock[w]
  /\ UNCHANGED vars

\* ... sets the key
DrawAcquire(c, w) ==
  /\ draws[c].pc = "idle"
  /\ w \in DrawWheels
  /\ ~redisLock[w]
  /\ redisLock' = [redisLock EXCEPT ![w] = TRUE]
  /\ draws' = [draws EXCEPT ![c] = [IdleDraw EXCEPT !.pc = "fetch", !.wheelId = w]]
  /\ UNCHANGED <<backendVars, wheel, joins, balance, wheelSeeds, published>>

\* PX 10000: the key expires
LockExpire(w) ==
  /\ w \in DrawWheels
  /\ redisLock[w]
  /\ redisLock' = [redisLock EXCEPT ![w] = FALSE]
  /\ UNCHANGED <<backendVars, wheel, joins, balance, wheelSeeds, draws, published>>

\* wheel.joins.filter(j => j.paid), as join ids in id order
Players(w) ==
  SelectSeq([k \in 1..Len(joins) |-> k], LAMBDA k : joins[k].wheelId = w /\ joins[k].paid)

\* findUnique returns; the throws before the payout: not waiting, no seed, or no
\* player (winnerJoin is undefined); the lock key is left to expire
DrawRejected(c) ==
  /\ draws[c].pc = "fetch"
  /\ \/ wheel[draws[c].wheelId].status # "waiting"
     \/ wheelSeeds[draws[c].wheelId] = 0
     \/ Players(draws[c].wheelId) = <<>>
  /\ draws' = [draws EXCEPT ![c] = IdleDraw]
  /\ UNCHANGED <<backendVars, wheel, joins, balance, wheelSeeds, redisLock, published>>

\* findUnique returns a waiting wheel: pool, nonce, winningIndex, winnerIdx, winnerJoin
DrawFetch(c, nonce) ==
  /\ draws[c].pc = "fetch"
  /\ LET w == draws[c].wheelId
         players == Players(w)
         serverSeed == wheelSeeds[w]
     IN /\ wheel[w].status = "waiting"
        /\ serverSeed # 0
        /\ players # <<>>
        /\ draws' = [draws EXCEPT ![c] =
             [pc |-> "pay", wheelId |-> w, nonce |-> nonce, serverSeed |-> serverSeed,
              winnerJoin |-> players[(HmacNum(serverSeed, nonce) % Len(players)) + 1],
              payout |-> Len(players) * wheel[w].entryFee,
              winningIndex |-> deterministicSpinIndex(serverSeed, nonce, wheel[w].segments)]]
  /\ UNCHANGED <<backendVars, wheel, joins, balance, wheelSeeds, redisLock, published>>

\* prisma.$transaction: join.payout, user.balance increment, wheel finished with serverSeed
DrawPay(c) ==
  /\ draws[c].pc = "pay"
  /\ joins' = [joins EXCEPT ![draws[c].winnerJoin].payout = draws[c].payout]
  /\ balance' = [balance EXCEPT ![joins[draws[c].winnerJoin].userId] = @ + draws[c].payout]
  /\ wheel' = [wheel EXCEPT ![draws[c].wheelId].status = "finished",
                            ![draws[c].wheelId].serverSeed = draws[c].serverSeed]
  /\ draws' = [draws EXCEPT ![c].pc = "release"]
  /\ UNCHANGED <<backendVars, wheelSeeds, redisLock, published>>

\* redisClient.del(lockKey)
DrawRelease(c) ==
  /\ draws[c].pc = "release"
  /\ redisLock' = [redisLock EXCEPT ![draws[c].wheelId] = FALSE]
  /\ draws' = [draws EXCEPT ![c].pc = "notify"]
  /\ UNCHANGED <<backendVars, wheel, joins, balance, wheelSeeds, published>>

\* the emit of 'wheel:finished' names winningSegment, which is not defined
\* (the constant is winnerSegment): ReferenceError, nothing is emitted, and the
\* handler acks {success: false}
DrawNotify(c) ==
  /\ draws[c].pc = "notify"
  /\ draws' = [draws EXCEPT ![c] = IdleDraw]
  /\ UNCHANGED <<backendVars, wheel, joins, balance, wheelSeeds, redisLock, published>>

DrawNext ==
  \/ \E seed \in SeedValues, segments \in SegmentInputs : DrawCreateInsert(seed, segments)
  \/ \E w \in 1..MaxDrawWheels : DrawCreateStore(w) \/ DrawLockBusy(w) \/ LockExpire(w)
  \/ \E u \in Users, w \in 1..(MaxDrawWheels + 1) : DrawJoin(u, w) \/ DrawJoinRejected(u, w)
  \/ \E c \in 1..MaxDraws :
       \/ \E w \in 1..MaxDrawWheels : DrawAcquire(c, w)
       \/ DrawRejected(c)
       \/ \E nonce \in NonceValues : DrawFetch(c, nonce)
       \/ DrawPay(c) \/ DrawRelease(c) \/ DrawNotify(c)

\* ======================================================================
\* The backend as a whole
\* ======================================================================

\* requests of clients: create, join, manual start
Requests ==
  \/ \E o \in OwnerInputs : CreateForbidden(o) \/ CreateConflict(o)
  \/ \E o \in OwnerInputs, f \in EntryFeeInputs : CreateChecked(o, f)
  \/ \E w \in 1..(MaxWheels + 1) :
       \/ JoinWheelNotFound(w)
       \/ JoinNotJoinable(w)
       \/ \E u \in Users \cup {NoSuchUser} : JoinLockWheel(w, u)
  \/ \E o \in OwnerInputs : StartForbidden(o)
  \/ \E o \in OwnerInputs, w \in 1..(MaxWheels + 1) :
       \/ StartWheelNotFound(o, w)
       \/ StartNotStartable(o, w)
       \/ \E s \in 1..MaxStarts : StartRead(s, o, w)

\* a statement of an open transaction fails
Failures ==
  \/ \E w \in 1..MaxWheels : JoinFail(w) \/ RefundFail(w)
  \/ \E l \in 1..(MaxStarts + 1) : FinalizeFail(l)

\* what the server does by itself: the rest of a handler in flight, a timer that fires
ServerSteps ==
  \/ CreateInsert
  \/ \E w \in 1..MaxWheels :
       \/ JoinUserNotFound(w) \/ JoinInsufficient(w) \/ JoinLockUser(w) \/ JoinCommit(w)
       \/ AutoStartRead(w) \/ AutoStartTooFew(w) \/ AutoStartCounted(w) \/ AutoStartUpdate(w)
       \/ RefundSelect(w) \/ RefundCredit(w) \/ RefundCommit(w)
       \/ startElimination(w)
  \/ \E s \in 1..MaxStarts : StartTooFew(s) \/ StartCounted(s) \/ StartUpdate(s)
  \/ \E l \in 1..(MaxStarts + 1) :
       \/ EliminateQuery(l) \/ EliminatePick(l) \/ EliminateMark(l) \/ EliminateNoWinner(l)
       \/ FinalizeLock(l) \/ FinalizeCreditWinner(l) \/ FinalizeCreditAdmin(l)
       \/ FinalizeCommit(l)

Next == Requests \/ Failures \/ ServerSteps

Spec == Init /\ [][Next]_vars

\* creation alone, with several create requests in flight: the create handler and
\* the deadline callback of each wheel, which aborts it (nobody joins)
CreateNext ==
  \/ \E o \in OwnerInputs : CreateForbidden(o) \/ CreateConflict(o)
  \/ \E o \in OwnerInputs, f \in EntryFeeInputs : CreateCheckedUpTo(MaxCreates, o, f)
  \/ CreateInsert
  \/ \E w \in 1..MaxCreates :
       \/ AutoStartRead(w) \/ AutoStartTooFew(w)
       \/ RefundSelect(w) \/ RefundCommit(w) \/ RefundFail(w)

SpecCreate == Init /\ [][CreateNext]_vars

\* the game service alone; the fee split of the backend plays no part in it
InitDraw == Init /\ config = SeedConfig

SpecDraw == InitDraw /\ [][DrawNext]_vars

\* the backend when timers that are due fire and statements sent to the database
\* return (weak fairness on the server's steps); a statement may still fail
SpecFair == Init /\ [][Next]_vars /\ WF_vars(ServerSteps)

\* the backend with restarts of its process; timers that are due fire and
\* statements sent to the database return (weak fairness on the server's steps)
SpecRestart == Init /\ [][Next \/ Restart]_vars /\ WF_vars(ServerSteps)

\* ======================================================================
\* Properties
\* ======================================================================
Terminal == {"finished", "aborted"}

PoolSum(w) == spin_wheels[w].winner_pool + spin_wheels[w].admin_pool + spin_wheels[w].app_pool

\* rows of wheel w that belong to user u
UserRows(w, u) == RowsOf(WheelRows(w), u)

\* C1: before a wheel is finished, winner_pool + admin_pool + app_pool equals
\* entry_fee times the number of committed participant rows, for every fee and
\* split; with fee 101 and the 70/20/10 split each join adds 70/20/11.
C1_PoolsEqualFees ==
  \A w \in Wheels :
    spin_wheels[w].status # "finished" =>
      /\ PoolSum(w) = spin_wheels[w].entry_fee * CountParticipants(w)
      /\ (spin_wheels[w].entry_fee = 101 /\ config = SeedConfig) =>
           /\ spin_wheels[w].winner_pool = 70 * CountParticipants(w)
           /\ spin_wheels[w].admin_pool = 20 * CountParticipants(w)
           /\ spin_wheels[w].app_pool = 11 * CountParticipants(w)

\* an active wheel of three joins at fee 101 under the 70/20/10 split
C1_Witness ==
  \E w \in Wheels :
    /\ spin_wheels[w].status = "active"
    /\ spin_wheels[w].entry_fee = 101
    /\ config = SeedConfig
    /\ CountParticipants(w) = 3
    /\ spin_wheels[w].app_pool = 33

\* every user holds at most one row per wheel: the runs in which no user joined a
\* wheel twice.  The statements of C3, C5, C6, C8 and C9 below are made for these
\* runs, so what refutes them does not rest on a repeated join.
DistinctJoiners == \A w \in Wheels : \A u \in Users : UserRows(w, u) <= 1

\* C2: a wheel holds at most one participant row per user (the second join of
\* the same user is rejected), so the user is debited at most once per wheel.
C2_OneRowPerUser ==
  \A w \in Wheels : \A u \in Users :
    /\ UserRows(w, u) <= 1
    /\ CopiesIn(TxRow(u, -spin_wheels[w].entry_fee, "debit", [wheel |-> w]), transactions) <= 1

\* the elimination loops started for wheel w
LoopsOf(w) == {l \in DOMAIN loops : loops[l].wheelId = w}

\* C3: manual start and deadline auto-start racing on one pending wheel start
\* exactly one elimination loop; the other trigger is a no-op.
C3_OneEliminationLoop ==
  DistinctJoiners => \A w \in Wheels : Cardinality(LoopsOf(w)) <= 1

StatusPath == {<<"pending", "active">>, <<"active", "finished">>, <<"pending", "aborted">>}

\* C5: a wheel's status moves only pending -> active -> finished or
\* pending -> aborted (an active wheel is never aborted), and once it is finished
\* or aborted no step changes its status or its pools.
C5_OneTerminalPath ==
  [][DistinctJoiners' => \A w \in Wheels :
       /\ \/ spin_wheels'[w].status = spin_wheels[w].status
          \/ <<spin_wheels[w].status, spin_wheels'[w].status>> \in StatusPath
       /\ spin_wheels[w].status \in Terminal => spin_wheels'[w] = spin_wheels[w]]_vars

\* a step in which the transaction of refundWheel or finalizeWinner on wheel w ends
PayoutEnds(w) ==
  \/ refund[w].pc \in {"select", "credit"} /\ refund'[w].pc = "idle"
  \/ \E l \in LoopsOf(w) :
       loops[l].pc \in {"finWinner", "finAdmin", "finCommit"} /\ loops'[l].pc = "done"

\* C6: finalizeWinner and refundWheel invoked on a wheel that is already finished
\* or aborted credit no balance, append no transaction and leave the status as it is.
C6_TerminalIdempotent ==
  [][DistinctJoiners' => \A w \in Wheels :
       (spin_wheels[w].status \in Terminal /\ PayoutEnds(w)) =>
         /\ coins' = coins
         /\ transactions' = transactions
         /\ spin_wheels'[w].status = spin_wheels[w].status]_vars

\* the winner credits of wheel w to user u
WinnerRows(w, u) ==
  {tx \in BagToSet(transactions) :
     tx.type = "credit" /\ tx.user_id = u /\ tx.meta = [wheel |-> w, role |-> "winner"]}

\* a step that appends a winner credit of wheel w to user u
WinnerPaid(w, u) ==
  \E tx \in WinnerRows(w, u)' : CopiesIn(tx, transactions') > CopiesIn(tx, transactions)

\* C8: from k >= 2 non-eliminated participants, each tick marks exactly one
\* participant that was not eliminated before, the last participant is never
\* eliminated, and the winner credit goes to the one participant left.
C8_EliminationPath ==
  [][DistinctJoiners' => \A w \in Wheels :
       /\ \A p \in Parts :
            spin_participants'[p] # spin_participants[p] =>
              ~spin_participants[p].eliminated /\ spin_participants'[p].eliminated
       /\ CountParticipants(w) >= 1 => Len(ActiveRows(w))' >= 1
       /\ \A u \in Users :
            WinnerPaid(w, u) =>
              /\ Len(ActiveRows(w)) = 1
              /\ spin_participants[ActiveRows(w)[1]].user_id = u
              /\ \A tx \in WinnerRows(w, u)' : tx.amount = spin_wheels[w].winner_pool]_vars

\* C9: the eliminated participants of a wheel carry pairwise different
\* eliminated_order values (later eliminations get larger values).
C9_DistinctEliminationOrder ==
  DistinctJoiners => \A p, q \in Parts :
    (/\ p # q
     /\ spin_participants[p].wheel_id = spin_participants[q].wheel_id
     /\ spin_participants[p].eliminated /\ spin_participants[q].eliminated)
    => spin_participants[p].eliminated_order # spin_participants[q].eliminated_order

\* a step in which the transaction of refundWheel on wheel w ends
RefundEnds(w) == refund[w].pc \in {"select", "credit"} /\ refund'[w].pc = "idle"

\* ... by its COMMIT
RefundCommitted(w) == spin_wheels[w].status # "aborted" /\ spin_wheels'[w].status = "aborted"

\* the credit row of a refund of wheel w to user u
AbortCredit(w, u) ==
  [user_id |-> u, amount |-> spin_wheels[w].entry_fee, type |-> "credit",
   meta |-> [wheel |-> w, reason |-> "not_enough_participants"]]

\* C7: when refundWheel commits and no join committed after it read the
\* participants, every participant row's user is credited the entry fee once per
\* row, with one credit transaction per row tagged with the abort reason, the
\* pools are paid to nobody and stay as they are, and the status becomes aborted;
\* when its transaction ends without committing, no balance, no transaction and
\* no wheel changes.
C7_AbortRefundsEachParticipant ==
  [][\A w \in Wheels :
       RefundEnds(w) =>
         IF RefundCommitted(w)
         THEN refund[w].parts = WheelRows(w) =>
                /\ \A u \in Users :
                     /\ coins'[u] = coins[u] + spin_wheels[w].entry_fee * UserRows(w, u)
                     /\ CopiesIn(AbortCredit(w, u), transactions')
                          = CopiesIn(AbortCredit(w, u), transactions) + UserRows(w, u)
                /\ BagCardinality(transactions')
                     = BagCardinality(transactions) + CountParticipants(w)
                /\ spin_wheels'[w] = [spin_wheels[w] EXCEPT !.status = "aborted"]
         ELSE /\ coins' = coins
              /\ transactions' = transactions
              /\ spin_wheels' = spin_wheels]_vars

\* an aborted wheel with three participants, each of them debited and refunded
C7_Witness ==
  \E w \in Wheels :
    /\ spin_wheels[w].status = "aborted"
    /\ CountParticipants(w) = 3
    /\ DistinctJoiners
    /\ \A u \in Users :
         /\ coins[u] = SeedUsers[u].coins
         /\ CopiesIn(AbortCredit(w, u), transactions) = UserRows(w, u)
    /\ PoolSum(w) = 3 * spin_wheels[w].entry_fee

\* amounts of the transaction rows in S, each counted as often as it is recorded
RECURSIVE SumAmounts(_)
SumAmounts(S) ==
  IF S = {} THEN 0
  ELSE LET tx == CHOOSE x \in S : TRUE
       IN tx.amount * CopiesIn(tx, transactions) + SumAmounts(S \ {tx})

\* the sum of all recorded transaction amounts of user u
TxSum(u) == SumAmounts({tx \in BagToSet(transactions) : tx.user_id = u})

\* C4: every change of a user's stored balance (users.coins of the backend,
\* user.balance of the game service) is matched by a transaction row of the same
\* signed amount: the balance is the opening balance plus the recorded amounts.
C4_LedgerReconciles ==
  \A u \in Users :
    (coins[u] - SeedUsers[u].coins) + (balance[u] - SeedUsers[u].coins) = TxSum(u)

\* C10: a wheel that was active when the process restarted is eventually aborted
\* (and so refunded); it does not stay active with no timer driving it.
C10_RestartRecovers ==
  \A w \in 1..MaxWheels :
    (w \in restartedActive) ~> (w \in Wheels /\ spin_wheels[w].status = "aborted")

\* C11: a deadline callback or an elimination tick that fires when the wheel is
\* already finished or aborted ends at once: it goes no further than its first
\* read (no elimination, no payout, no refund, no status write follow) and the
\* database is as it was.
C11_LateTimersAreNoOps ==
  [][DistinctJoiners' =>
       /\ \A w \in Wheels :
            (/\ spin_wheels[w].status \in Terminal
             /\ autoStart[w] = "timer" /\ autoStart'[w] # "timer")
            => autoStart'[w] = "done" /\ UNCHANGED dbVars
       /\ \A l \in DOMAIN loops :
            (/\ spin_wheels[loops[l].wheelId].status \in Terminal
             /\ loops[l].pc = "timer" /\ loops'[l].pc # "timer")
            => loops'[l].pc = "done" /\ UNCHANGED dbVars]_vars

\* C12: at most one wheel is pending or active, also when create requests are
\* handled concurrently; a create that would add a second live wheel inserts nothing.
C12_OneLiveWheel == Cardinality(LiveWheels) <= 1

\* a start trigger on wheel w gets its count back, and it is below min_participants
TooFewAtStart(w) ==
  /\ CountParticipants(w) < spin_wheels[w].min_participants
  /\ \/ autoStart[w] = "count" /\ autoStart'[w] # "count"
     \/ \E s \in 1..MaxStarts :
          startReq[s].pc = "count" /\ startReq[s].wheelId = w /\ startReq'[s].pc # "count"

\* C13: no trigger makes a wheel with fewer than min_participants rows active,
\* and a trigger (manual or deadline) that counts too few participants on a
\* pending wheel aborts it: it opens the refund of the wheel, it does not just
\* leave the wheel pending.
C13_TooFewAborts ==
  [][\A w \in Wheels :
       /\ (spin_wheels[w].status = "pending" /\ spin_wheels'[w].status = "active")
            => CountParticipants(w) >= spin_wheels[w].min_participants
       /\ (spin_wheels[w].status = "pending" /\ TooFewAtStart(w))
            => refund'[w].pc = "select" \/ spin_wheels'[w].status = "aborted"]_vars

\* a step registers a participant row on a backend wheel that is not pending
LateParticipant ==
  /\ Len(spin_participants') > Len(spin_participants)
  /\ spin_wheels[spin_participants'[Len(spin_participants')].wheel_id].status # "pending"

\* a step registers a join on a game-service wheel that is not waiting
LateJoin ==
  /\ Len(joins') > Len(joins)
  /\ wheel[joins'[Len(joins')].wheelId].status # "waiting"

\* C14: on both join paths a participant is registered only while the wheel is
\* joinable (pending on the backend, waiting in the game service).
C14_JoinOnlyWhenJoinable == [][~LateParticipant /\ ~LateJoin]_vars

\* the join transaction of wheel w ends and no participant row was added
JoinEndsUncommitted(w) ==
  /\ joinTx[w].pc # "none" /\ joinTx'[w].pc = "none"
  /\ Len(spin_participants') = Len(spin_participants)

\* C15: a join that is rejected after BEGIN (user not found, too few coins) or
\* whose transaction fails before COMMIT leaves coins, pools, participants and
\* transactions as they were and holds no lock; while it is open, none of its
\* writes is in the tables.
C15_JoinAllOrNothing ==
  [][\A w \in Wheels :
       JoinEndsUncommitted(w) =>
         /\ UNCHANGED <<coins, spin_wheels, spin_participants, transactions>>
         /\ wheelLock'[w] = NoTx
         /\ \A u \in Users : userLock'[u] # JoinTxId(w)]_vars

\* a join transaction of a user with coins holds both row locks, its writes not
\* committed, on a wheel that already has a participant: it can still fail
C15_Witness ==
  \E w \in Wheels :
    /\ joinTx[w].pc = "write"
    /\ userLock[joinTx[w].user_id] = JoinTxId(w)
    /\ coins[joinTx[w].user_id] = SeedUsers[joinTx[w].user_id].coins
    /\ CountParticipants(w) >= 1

\* C16: no user's coins are ever negative, whatever the interleaving of joins,
\* refunds and payouts.
C16_CoinsNeverNegative == \A u \in Users : coins[u] >= 0

\* a user who joined once and has fewer coins left than the entry fee asks to
\* join the same wheel again
C16_Witness ==
  \E w \in Wheels :
    /\ joinTx[w].pc = "lockUser"
    /\ joinTx[w].user_id \in Users
    /\ UserRows(w, joinTx[w].user_id) = 1
    /\ coins[joinTx[w].user_id] > 0
    /\ coins[joinTx[w].user_id] < spin_wheels[w].entry_fee

\* the payout transaction of startWheel call c commits in this step
PayoutCommits(c) == draws[c].pc = "pay" /\ draws'[c].pc = "release"

\* C17: over all interleavings of startWheel calls on one wheel, with the lock
\* key expiring under its holder, a wheel is paid out at most once: a payout
\* commits only on a wheel that is still waiting.
C17_OnePayoutPerWheel ==
  [][\A c \in 1..MaxDraws :
       PayoutCommits(c) => wheel[draws[c].wheelId].status = "waiting"]_vars

\* what was sent to clients about wheel w that carries a wheel row
SentRows(w) == {e \in published : e.wheelId = w /\ "wheel" \in DOMAIN e}

\* C18: while a wheel is not finished its seed is in no stored row and in no
\* event or ack sent to clients; the seed is stored by the transaction that sets
\* the wheel finished, and the commitment published at creation is SHA-256 of it.
C18_SeedSecrecy ==
  \A w \in DrawWheels :
    /\ wheel[w].status # "finished" => wheel[w].serverSeed = 0
    /\ \A e \in SentRows(w) : e.wheel.status # "finished" => e.wheel.serverSeed = 0
    /\ wheel[w].status = "finished" =>
         /\ wheel[w].serverSeed # 0
         /\ wheel[w].serverSeed = wheelSeeds[w]
         /\ wheel[w].serverSeedHash = Sha256(wheel[w].serverSeed)
         /\ \A e \in SentRows(w) : e.wheel.serverSeedHash = Sha256(wheel[w].serverSeed)

\* a finished wheel with its seed revealed in the store, whose creation was
\* announced while the seed was held in memory
C18_Witness ==
  \E w \in DrawWheels :
    /\ wheel[w].status = "finished"
    /\ wheel[w].serverSeed # 0
    /\ \E e \in SentRows(w) : e.event = "wheel:created" /\ e.wheel.status = "waiting"

\* the 'wheel:finished' events sent for wheel w
FinishedEvents(w) == {e \in published : e.event = "wheel:finished" /\ e.wheelId = w}

\* startWheel call c, its payout committed and its lock released, ends
DrawEnds(c) == draws[c].pc = "notify" /\ draws'[c].pc = "idle"

\* C19: when a startWheel call that paid a winner ends, a 'wheel:finished' event
\* with its seed, nonce and winner has been published, and the draw recomputed
\* from the published seed and nonce gives the winning segment of the call.
C19_FairnessRoundTrip ==
  [][\A c \in 1..MaxDraws :
       DrawEnds(c) =>
         \E e \in FinishedEvents(draws[c].wheelId)' :
           /\ e.serverSeed = draws[c].serverSeed
           /\ e.nonce = draws[c].nonce
           /\ e.winner = joins[draws[c].winnerJoin].userId
           /\ e.serverSeedHash = Sha256(e.serverSeed)
           /\ deterministicSpinIndex(e.serverSeed, e.nonce, wheel[draws[c].wheelId].segments)
                = draws[c].winningIndex]_vars

\* the status a lifecycle event announces
AnnouncedStatus ==
  [wheelStarted |-> "active", wheelAborted |-> "aborted", wheelFinished |-> "finished"]

\* C20: when wheelStarted, wheelAborted or wheelFinished is emitted for a wheel,
\* the stored status of the wheel is active, aborted or finished respectively
\* (no wheelAborted after a refund that rolled back), and every finished wheel
\* has had its wheelFinished event.
C20_EventsMatchCommittedState ==
  [][/\ \A e \in emitted' \ emitted :
          e.event \in DOMAIN AnnouncedStatus =>
            spin_wheels'[e.wheelId].status = AnnouncedStatus[e.event]
     /\ \A w \in Wheels :
          spin_wheels'[w].status = "finished" =>
            [event |-> "wheelFinished", wheelId |-> w] \in emitted']_vars

\* C21: on an aborted wheel every committed participant row has its one refund
\* of the entry fee: a join that overlaps refundWheel is either refunded or
\* rejected, and nobody is left debited.
C21_AbortedWheelFullyRefunded ==
  \A w \in Wheels :
    spin_wheels[w].status = "aborted" =>
      \A u \in Users : CopiesIn(AbortCredit(w, u), transactions) = UserRows(w, u)

\* C22: every wheel that becomes active is eventually finished, given that
\* timers fire, also when a statement inside a tick fails: a failed tick does not
\* leave the wheel active with no tick scheduled.
C22_ActiveWheelFinishes ==
  \A w \in 1..MaxWheels :
    (w \in Wheels /\ spin_wheels[w].status = "active")
      ~> (w \in Wheels /\ spin_wheels[w].status = "finished")

\* the transaction holding the row lock that the join transaction of wheel w
\* waits for (SELECT * FROM users ... FOR UPDATE); NoTx if it waits for none
JoinWaitsFor(w) ==
  IF joinTx[w].pc = "lockUser" /\ joinTx[w].user_id \in Users
  THEN userLock[joinTx[w].user_id]
  ELSE NoTx

\* ... that refundWheel's transaction on wheel w waits for: the user row of its
\* next credit, or the wheel row of its last UPDATE
RefundWaitsFor(w) ==
  IF refund[w].pc # "credit" THEN NoTx
  ELSE IF refund[w].i <= Len(refund[w].parts)
       THEN LET holder == userLock[spin_participants[refund[w].parts[refund[w].i]].user_id]
            IN IF holder = RefundTxId(w) THEN NoTx ELSE holder
       ELSE wheelLock[w]

\* ... that finalizeWinner's transaction of loop l waits for: the row of the
\* winner or of the owner
FinalizeWaitsFor(l) ==
  LET w == loops[l].wheelId
      holder == IF loops[l].pc = "finWinner" /\ spin_wheels[w].winner_pool > 0
                THEN userLock[loops[l].winnerUserId]
                ELSE IF loops[l].pc = "finAdmin" /\ spin_wheels[w].admin_pool > 0
                     THEN userLock[spin_wheels[w].owner_id]
                     ELSE NoTx
  IN IF holder = FinalizeTxId(l) THEN NoTx ELSE holder

\* pairs <<waiter, holder>> of transactions
WaitsFor ==
  {<<JoinTxId(w), JoinWaitsFor(w)>> : w \in Wheels}
    \cup {<<RefundTxId(w), RefundWaitsFor(w)>> : w \in Wheels}
    \cup {<<FinalizeTxId(l), FinalizeWaitsFor(l)>> : l \in DOMAIN loops}

\* C23: no two transactions (join, refundWheel, finalizeWinner) each hold a row
\* lock, of a wheel or of a user, that the other is waiting for.
C23_NoLockOrderDeadlock ==
  \A p \in WaitsFor : p[2] # NoTx => <<p[2], p[1]>> \notin WaitsFor

RECURSIVE SumCoins(_)
\* the sum of users.coins over the users in S
SumCoins(S) ==
  IF S = {} THEN 0
  ELSE LET u == CHOOSE x \in S : TRUE IN coins[u] + SumCoins(S \ {u})

\* the coins wheel w still holds: all three pools until it is paid out, the app
\* pool (which finalizeWinner pays to nobody) once finished, nothing once refunded
HeldPools(w) ==
  IF spin_wheels[w].status \in {"pending", "active"} THEN PoolSum(w)
  ELSE IF spin_wheels[w].status = "finished" THEN spin_wheels[w].app_pool
       ELSE 0

RECURSIVE SumHeld(_)
SumHeld(S) ==
  IF S = {} THEN 0
  ELSE LET w == CHOOSE x \in S : TRUE IN HeldPools(w) + SumHeld(S \ {w})

\* the credit rows of wheel w
WheelCredits(w) ==
  {tx \in BagToSet(transactions) : tx.type = "credit" /\ tx.meta.wheel = w}

\* ... with the given role
RoleCredits(w, role) ==
  {tx \in WheelCredits(w) : tx.meta = [wheel |-> w, role |-> role]}

RECURSIVE SumSeedCoins(_)
\* the sum of the opening balances of the users in S
SumSeedCoins(S) ==
  IF S = {} THEN 0
  ELSE LET u == CHOOSE x \in S : TRUE IN SeedUsers[u].coins + SumSeedCoins(S \ {u})

\* C24: coin conservation: the user balances plus the pools still held by
\* wheels always add up to the opening balances; a finished wheel has credited
\* winner_pool to its winner and admin_pool to its owner, each once, and nothing
\* else; an aborted wheel has credited entry_fee times its number of participants.
C24_CoinConservation ==
  /\ SumCoins(Users) + SumHeld(Wheels) = SumSeedCoins(Users)
  /\ \A w \in Wheels :
       /\ spin_wheels[w].status = "finished" =>
            /\ SumAmounts(RoleCredits(w, "winner")) = spin_wheels[w].winner_pool
            /\ SumAmounts(RoleCredits(w, "admin")) = spin_wheels[w].admin_pool
            /\ SumAmounts(WheelCredits(w))
                 = spin_wheels[w].winner_pool + spin_wheels[w].admin_pool
       /\ spin_wheels[w].status = "aborted" =>
            SumAmounts(WheelCredits(w)) = spin_wheels[w].entry_fee * CountParticipants(w)

RECURSIVE CumulativeWeight(_, _)
\* weight[1] + ... + weight[i], the weights taken as they were given
CumulativeWeight(segments, i) ==
  IF i = 0 THEN 0 ELSE segments[i] + CumulativeWeight(segments, i - 1)

\* the first index whose cumulative weight exceeds pick
FirstExceeding(segments, pick) ==
  CHOOSE i \in 1..Len(segments) :
    /\ CumulativeWeight(segments, i) > pick
    /\ \A j \in 1..(i - 1) : CumulativeWeight(segments, j) <= pick

\* C25: for segments of non-negative weights with a positive total,
\* deterministicSpinIndex returns the first index whose cumulative weight
\* exceeds the digest modulo the total weight; the index is within the list and
\* a segment of weight 0 is never selected.
C25_SpinIndexByWeight ==
  \A c \in DOMAIN draws :
    draws[c].pc \in {"pay", "release", "notify"} =>
      LET segments == wheel[draws[c].wheelId].segments
          total == CumulativeWeight(segments, Len(segments))
          num == HmacNum(draws[c].serverSeed, draws[c].nonce)
      IN total > 0 =>
           /\ draws[c].winningIndex \in 1..Len(segments)
           /\ segments[draws[c].winningIndex] # 0
           /\ draws[c].winningIndex = FirstExceeding(segments, num % total)

====
